---- MODULE Spec2Model ----
(***************************************************************************)
(* Model of src/main.py: the movement-assessment API.                      *)
(*                                                                         *)
(* State: the process-wide configuration built at import time              *)
(* (OPENAI_AVAILABLE, OPENAI_API_KEY, client), one record per analyze      *)
(* request, and the set of answers /api/health has given.                  *)
(*                                                                         *)
(* The handler `analyze` is a coroutine with one suspension point, the     *)
(* await of client.chat.completions.create.  It is modelled by two atomic  *)
(* actions: analyze_begin (entry up to the await, or to the end when it    *)
(* never awaits) and analyze_resume (from the upstream reply to the HTTP   *)
(* response, response_model validation included).                          *)
(*                                                                         *)
(* Texts are sequences of characters.  A character is a one-character      *)
(* string, or a document atom ("DOC_OK", ...) standing for the complete    *)
(* text of one JSON object: such a text begins with a brace, ends with a   *)
(* brace and holds no backtick, so no prefix or suffix test of the code    *)
(* can match inside it.                                                    *)
(***************************************************************************)
EXTENDS Integers, Sequences, FiniteSets, TLC

VARIABLES OPENAI_AVAILABLE, OPENAI_API_KEY, ctorRaised, client, req, healthLog

vars == <<OPENAI_AVAILABLE, OPENAI_API_KEY, ctorRaised, client, req, healthLog>>

\* ---- bounds ----

\* number of analyze requests the process receives
NumReq == 2

\* largest number of poses in a request; a request has none or this many
MaxPoses == 1

Requests == 1..NumReq

\* ---- text primitives ----

\* the backtick character (the lexer of TLA+ accepts no backtick in a string)
BT == "BACKTICK"
SP == " "
NL == "\n"

\* str.strip() with no argument removes whitespace
IsSpace(c) == c \in {SP, NL}

Fence == <<BT, BT, BT>>

FenceJson == Fence \o <<"j", "s", "o", "n">>

\* s.startswith(p)
startswith(s, p) == Len(s) >= Len(p) /\ SubSeq(s, 1, Len(p)) = p

\* s.endswith(p)
endswith(s, p) == Len(s) >= Len(p) /\ SubSeq(s, Len(s) - Len(p) + 1, Len(s)) = p

\* s[n:]
DropFirst(s, n) == SubSeq(s, n + 1, Len(s))

\* s[:-n]
DropLast(s, n) == SubSeq(s, 1, Len(s) - n)

RECURSIVE lstrip(_)
lstrip(s) == IF s # <<>> /\ IsSpace(Head(s)) THEN lstrip(Tail(s)) ELSE s

RECURSIVE rstrip(_)
rstrip(s) == IF s # <<>> /\ IsSpace(s[Len(s)]) THEN rstrip(DropLast(s, 1)) ELSE s

\* s.strip()
strip(s) == rstrip(lstrip(s))

\* ---- response repair and parsing (analyze_with_openai, lines 137-148) ----

\* the repair without its last test: a trailing marker is left in place
clean_markdown_keep_trailing(content) ==
    LET t0 == strip(content)
        t1 == IF startswith(t0, FenceJson) THEN DropFirst(t0, 7) ELSE t0
        t2 == IF startswith(t1, Fence) THEN DropFirst(t1, 3) ELSE t1
    IN  strip(t2)

\* the repair with the second test made an alternative of the first (elif)
clean_markdown_elif(content) ==
    LET t0 == strip(content)
        t1 == IF startswith(t0, FenceJson) THEN DropFirst(t0, 7)
              ELSE IF startswith(t0, Fence) THEN DropFirst(t0, 3) ELSE t0
        t3 == IF endswith(t1, Fence) THEN DropLast(t1, 3) ELSE t1
    IN  strip(t3)

\* result_text after lines 137-146: strip, three independent tests, strip
clean_markdown(content) ==
    LET t0 == strip(content)
        t1 == IF startswith(t0, FenceJson) THEN DropFirst(t0, 7) ELSE t0
        t2 == IF startswith(t1, Fence) THEN DropFirst(t1, 3) ELSE t1
        t3 == IF endswith(t2, Fence) THEN DropLast(t2, 3) ELSE t2
    IN  strip(t3)

\* JSON values: a Python int and a Python str as json.loads produces them
JInt(n) == [t |-> "int", i |-> n, s |-> ""]

JStr(x) == [t |-> "str", i |-> 0, s |-> x]

\* the feedback and suggestions of the example response in the prompt
ExampleFeedback ==
    << [type |-> "good", text |-> "accuracy is high", icon |-> "check"],
       [type |-> "improve", text |-> "coordination can improve", icon |-> "bolt"] >>

ExampleSuggestions == << "keep the core stable", "slow the movement down" >>

\* the JSON objects the upstream model is taken to answer with:
\*   DOC_OK       every field of AnalysisResponse, each of its declared type
\*   DOC_MISSING  the same without "stability"
\*   DOC_NUMSTR   "overall" is the JSON string "85"
\*   DOC_BADTYPE  "overall" is the JSON string "high"
DocValue ==
    [ DOC_OK |->
        [overall |-> JInt(85), accuracy |-> JInt(88), coordination |-> JInt(82),
         stability |-> JInt(85), feedback |-> ExampleFeedback,
         suggestions |-> ExampleSuggestions],
      DOC_MISSING |->
        [overall |-> JInt(85), accuracy |-> JInt(88), coordination |-> JInt(82),
         feedback |-> ExampleFeedback, suggestions |-> ExampleSuggestions],
      DOC_NUMSTR |->
        [overall |-> JStr("85"), accuracy |-> JInt(88), coordination |-> JInt(82),
         stability |-> JInt(85), feedback |-> ExampleFeedback,
         suggestions |-> ExampleSuggestions],
      DOC_BADTYPE |->
        [overall |-> JStr("high"), accuracy |-> JInt(88), coordination |-> JInt(82),
         stability |-> JInt(85), feedback |-> ExampleFeedback,
         suggestions |-> ExampleSuggestions] ]

Docs == DOMAIN DocValue

NoValue == [none |-> TRUE]

\* json.loads(result_text).  Over the characters of the model (backtick,
\* whitespace, the letters j s o n t p and document atoms) the JSON texts are
\* exactly one document atom with optional surrounding whitespace: the
\* letters spell no JSON literal and two objects in a row are "extra data".
json_loads(text) ==
    LET t == strip(text)
    IN  IF Len(t) = 1 /\ t[1] \in Docs
        THEN [ok |-> TRUE, value |-> DocValue[t[1]]]
        ELSE [ok |-> FALSE, value |-> NoValue]

\* ---- response_model = AnalysisResponse (lines 73-79, 202) ----

IntFields == {"overall", "accuracy", "coordination", "stability"}

RequiredFields == IntFields \cup {"feedback", "suggestions"}

\* the strings that are the decimal notation of an integer, with their value
NumericStrings == [ s \in {"85"} |-> 85 ]

\* an int field accepts an int, and a str that is the notation of an integer
\* (the validation of a response_model is not strict)
int_accepts(v) == v.t = "int" \/ (v.t = "str" /\ v.s \in DOMAIN NumericStrings)

int_value(v) == IF v.t = "int" THEN v.i ELSE NumericStrings[v.s]

FeedbackItemFields == {"type", "text", "icon"}

\* does the value returned by the handler validate as AnalysisResponse
response_valid(result) ==
    /\ RequiredFields \subseteq DOMAIN result
    /\ \A f \in IntFields : int_accepts(result[f])
    /\ \A k \in 1..Len(result.feedback) :
          FeedbackItemFields \subseteq DOMAIN result.feedback[k]

\* the validated response that is serialised
response_of(result) ==
    [overall |-> int_value(result.overall), accuracy |-> int_value(result.accuracy),
     coordination |-> int_value(result.coordination),
     stability |-> int_value(result.stability),
     feedback |-> result.feedback, suggestions |-> result.suggestions]

\* ---- the texts and replies of the upstream service ----

\* "not json"
NotJson == <<"n", "o", "t", SP, "j", "s", "o", "n">>

\* payload texts: plain documents, prose, and texts that carry markers of
\* their own (a bare marker, a json marker, a marker with another tag, a
\* marker after whitespace, a trailing marker, doubled markers)
Payloads ==
    { <<"DOC_OK">>,
      <<"DOC_MISSING">>,
      <<"DOC_NUMSTR">>,
      <<"DOC_BADTYPE">>,
      NotJson,
      <<>>,
      <<SP, "DOC_OK", NL>>,
      Fence \o <<"DOC_OK">>,
      FenceJson \o <<"DOC_OK">>,
      <<SP>> \o Fence \o <<"DOC_OK">>,
      <<"DOC_OK">> \o Fence,
      Fence \o <<"p", NL, "DOC_OK", NL>> \o Fence,
      Fence \o Fence \o <<"DOC_OK">> \o Fence \o Fence }

\* P between a leading json marker and a trailing marker, on one line
WrapTight(P) == FenceJson \o P \o Fence

\* P between a leading json marker and a trailing marker, on lines of their own
WrapLines(P) == FenceJson \o <<NL>> \o P \o <<NL>> \o Fence

Texts == Payloads \cup { WrapTight(P) : P \in Payloads } \cup { WrapLines(P) : P \in Payloads }

NoReply == [kind |-> "none", text |-> <<>>]

\* what the await of client.chat.completions.create ends with: an exception
\* of the call ("error"), an envelope without choices[0].message.content
\* ("envelope", line 137 raises), or a completion text
Replies ==
    { [kind |-> "error", text |-> <<>>], [kind |-> "envelope", text |-> <<>>] }
      \cup { [kind |-> "text", text |-> t] : t \in Texts }

\* ---- requests and responses ----

NoResponse ==
    [overall |-> 0, accuracy |-> 0, coordination |-> 0, stability |-> 0,
     feedback |-> <<>>, suggestions |-> <<>>]

NoBody == [kind |-> "none", text |-> "", response |-> NoResponse]

IdleRequest ==
    [pc |-> "idle", poses |-> 0, openaiCalls |-> 0, upstreamCalls |-> 0,
     localCalls |-> 0, reply |-> NoReply, parse |-> "none", parserInput |-> <<>>,
     status |-> 0, body |-> NoBody]

\* the response the framework sends for a raised HTTPException
HTTPException(rec, status_code, detail) ==
    [rec EXCEPT !.pc = "done", !.status = status_code,
                !.body = [kind |-> "detail", text |-> detail, response |-> NoResponse]]

\* `return result` of analyze under response_model = AnalysisResponse: the
\* value is validated once the handler has returned, outside its try block;
\* a value that does not validate is answered by the server's plain-text
\* "Internal Server Error"
return_result(rec, result) ==
    IF response_valid(result)
    THEN [rec EXCEPT !.pc = "done", !.status = 200,
                     !.body = [kind |-> "AnalysisResponse", text |-> "",
                               response |-> response_of(result)]]
    ELSE [rec EXCEPT !.pc = "done", !.status = 500,
                     !.body = [kind |-> "plain", text |-> "Internal Server Error",
                               response |-> NoResponse]]

\* ---- analyze_locally (lines 156-182) ----

\* random.randint with the upper end one too far
randint_past(a, b) == a..(b + 1)

\* random.randint(a, b): any integer of [a, b], both ends included
randint(a, b) == a..b

\* the values the model takes from a range (the draws of randint, the number
\* of poses of a request): its least and its greatest value
Sampled(S) == { x \in S : (\A y \in S : x <= y) \/ (\A y \in S : y <= x) }

LocalFeedback ==
    << [type |-> "good", text |-> "movement completed", icon |-> "check"],
       [type |-> "improve", text |-> "movement can be more standard", icon |-> "bolt"] >>

LocalSuggestions == << "keep the rhythm and breathe", "warm up before practice" >>

\* the dict analyze_locally returns for the four draws
analyze_locally(overall, accuracy, coordination, stability) ==
    [overall |-> JInt(overall), accuracy |-> JInt(accuracy),
     coordination |-> JInt(coordination), stability |-> JInt(stability),
     feedback |-> LocalFeedback, suggestions |-> LocalSuggestions]

\* ---- startup (lines 16-46) ----

OPENAI_MODEL == "gpt-4o"

\* the module is imported once: the openai package is importable or not, the
\* credential is set or "", and AsyncOpenAI(...) is only called when both
\* hold; when it raises, client stays None
Init ==
    /\ OPENAI_AVAILABLE \in BOOLEAN
    /\ OPENAI_API_KEY \in {"", "sk-key"}
    /\ ctorRaised \in (IF OPENAI_AVAILABLE /\ OPENAI_API_KEY # "" THEN BOOLEAN ELSE {FALSE})
    /\ client = IF OPENAI_AVAILABLE /\ OPENAI_API_KEY # "" /\ ~ctorRaised
                THEN "AsyncOpenAI" ELSE "None"
    /\ req = [r \in Requests |-> IdleRequest]
    /\ healthLog = {}

\* ---- GET /api/health (lines 191-199) ----

\* a health answer that reports the import flag as the configuration
health_response_available ==
    [status |-> "ok", openai_configured |-> OPENAI_AVAILABLE,
     openai_available |-> OPENAI_AVAILABLE, model |-> OPENAI_MODEL]

health_response ==
    [status |-> "ok", openai_configured |-> (client # "None"),
     openai_available |-> OPENAI_AVAILABLE, model |-> OPENAI_MODEL]

health ==
    /\ healthLog' = healthLog \cup {health_response}
    /\ UNCHANGED <<OPENAI_AVAILABLE, OPENAI_API_KEY, ctorRaised, client, req>>

\* ---- POST /api/analyze (lines 82-153, 202-223) ----

\* an emptiness test that never holds
not_poses_never(n) == n < 0

\* `not request.poses`: the list of poses is empty
not_poses(n) == n = 0

\* a test of the credential in place of the client
client_truthy_key == OPENAI_API_KEY # ""

\* `if client:` (line 211) and `if not client:` (line 85)
client_truthy == client # "None"

\* the upstream failure answered by the local generator
openai_failed_fallback(rec) ==
    return_result([rec EXCEPT !.localCalls = @ + 1], analyze_locally(70, 70, 70, 70))

\* the upstream call made a second time before the failure is reported
openai_failed_retry(rec) ==
    HTTPException([rec EXCEPT !.upstreamCalls = @ + 1], 500, "OpenAI API call failed")

\* `except Exception` of analyze_with_openai (lines 151-153): HTTPException
\* 500, which `except HTTPException: raise` of analyze (219-220) passes on
openai_failed(rec) == HTTPException(rec, 500, "OpenAI API call failed")

\* analyze from its entry to the await of line 122, or to its end when the
\* request is empty or no client is configured
analyze_begin(r, n) ==
    /\ req[r].pc = "idle"
    /\ \E overall, accuracy, coordination, stability \in Sampled(randint(70, 95)) :
         LET rec == [req[r] EXCEPT !.poses = n]
         IN  req' = [req EXCEPT ![r] =
                 IF not_poses(n)
                 THEN HTTPException(rec, 400, "poses empty")
                 ELSE IF client_truthy
                 THEN LET called == [rec EXCEPT !.openaiCalls = @ + 1]
                      IN  IF client = "None"
                          THEN HTTPException(called, 500, "OpenAI API not configured")
                          ELSE [called EXCEPT !.upstreamCalls = @ + 1, !.pc = "awaiting"]
                 ELSE return_result([rec EXCEPT !.localCalls = @ + 1],
                          analyze_locally(overall, accuracy, coordination, stability))]
    /\ UNCHANGED <<OPENAI_AVAILABLE, OPENAI_API_KEY, ctorRaised, client, healthLog>>

\* the outcome of one request written to every request that is awaiting
analyze_resume_shared(r, reply) ==
    /\ req[r].pc = "awaiting"
    /\ LET text == clean_markdown(reply.text)
           parsed == json_loads(text)
           out(rec) == IF reply.kind # "text" THEN openai_failed(rec)
                       ELSE IF ~parsed.ok THEN openai_failed(rec)
                       ELSE return_result(rec, parsed.value)
       IN  req' = [q \in Requests |->
                     IF q = r THEN out([req[q] EXCEPT !.reply = reply])
                     ELSE IF req[q].pc = "awaiting" THEN out(req[q])
                     ELSE req[q]]
    /\ UNCHANGED <<OPENAI_AVAILABLE, OPENAI_API_KEY, ctorRaised, client, healthLog>>

\* analyze from the end of the await to the HTTP response: lines 137-153,
\* then 217-223 and the validation of the returned value
analyze_resume(r, reply) ==
    /\ req[r].pc = "awaiting"
    /\ LET rec == [req[r] EXCEPT !.reply = reply]
       IN  req' = [req EXCEPT ![r] =
                 IF reply.kind # "text"
                 THEN openai_failed(rec)
                 ELSE LET text == clean_markdown(reply.text)
                          parsed == json_loads(text)
                          handed == [rec EXCEPT !.parserInput = text,
                                                !.parse = IF parsed.ok THEN "ok" ELSE "error"]
                      IN  IF ~parsed.ok
                          THEN openai_failed(handed)
                          ELSE return_result(handed, parsed.value)]
    /\ UNCHANGED <<OPENAI_AVAILABLE, OPENAI_API_KEY, ctorRaised, client, healthLog>>

Next ==
    \/ \E r \in Requests, n \in Sampled(0..MaxPoses) : analyze_begin(r, n)
    \/ \E r \in Requests, reply \in Replies : analyze_resume(r, reply)
    \/ health

Spec == Init /\ [][Next]_vars

\* ---- properties ----

Started(r) == req[r].pc # "idle"

Done(r) == req[r].pc = "done"

Delegated(r) == req[r].openaiCalls > 0

UpstreamFailed(r) == req[r].reply.kind \in {"error", "envelope"}

TextReply(r) == req[r].reply.kind = "text"

\* C1: a request whose list of poses is empty ends in Failed with HTTP 400,
\* whether or not a completion client is configured.
C1_EmptyIs400 ==
    \A r \in Requests :
        Started(r) /\ req[r].poses = 0 =>
            Done(r) /\ req[r].status = 400 /\ req[r].body.kind = "detail"

C1_Witness ==
    \E r \in Requests :
        Done(r) /\ req[r].poses = 0 /\ req[r].status = 400 /\ client # "None"

\* C2: with a client configured, a non-empty request whose upstream call
\* fails, or whose repaired text the parser rejects, ends in Failed with
\* HTTP 500, and analyze_locally is not invoked on a request while a client
\* is configured.
C2_NoFallbackOnFailure ==
    \A r \in Requests :
        client # "None" /\ req[r].poses > 0 =>
            /\ req[r].localCalls = 0
            /\ (Done(r) /\ (UpstreamFailed(r) \/ req[r].parse = "error") =>
                    req[r].status = 500)

C2_Witness ==
    \E r \in Requests :
        /\ Done(r) /\ client # "None" /\ req[r].poses > 0
        /\ req[r].reply = [kind |-> "text", text |-> NotJson]
        /\ req[r].status = 500 /\ req[r].localCalls = 0

ScoreOf(r) ==
    { req[r].body.response.overall, req[r].body.response.accuracy,
      req[r].body.response.coordination, req[r].body.response.stability }

\* C3: with no client configured, a non-empty request always succeeds by the
\* local generator: HTTP 200, each of the four scores an integer of [70, 95],
\* feedback and suggestions not empty.
C3_FallbackSucceeds ==
    \A r \in Requests :
        Started(r) /\ req[r].poses > 0 /\ client = "None" =>
            /\ Done(r) /\ req[r].status = 200 /\ req[r].localCalls = 1
            /\ req[r].body.kind = "AnalysisResponse"
            /\ \A v \in ScoreOf(r) : v \in Int /\ 70 <= v /\ v <= 95
            /\ Len(req[r].body.response.feedback) > 0
            /\ Len(req[r].body.response.suggestions) > 0

C3_Witness ==
    \E r \in Requests :
        /\ Done(r) /\ req[r].poses > 0 /\ client = "None" /\ req[r].status = 200
        /\ req[r].body.response.overall = 95 /\ req[r].body.response.accuracy = 70

\* C4: a non-empty request calls analyze_with_openai iff a client is
\* configured and analyze_locally otherwise: exactly one of the two, once.
C4_BranchByClient ==
    \A r \in Requests :
        Started(r) /\ req[r].poses > 0 =>
            /\ (req[r].openaiCalls > 0 <=> client # "None")
            /\ (req[r].localCalls > 0 <=> client = "None")
            /\ req[r].openaiCalls + req[r].localCalls = 1

C4_Witness ==
    \E r1, r2 \in Requests :
        /\ req[r1].pc = "awaiting" /\ req[r1].openaiCalls = 1 /\ req[r1].localCalls = 0
        /\ Done(r2) /\ req[r2].poses > 0 /\ req[r2].openaiCalls = 1 /\ req[r2].status = 200

\* the completion of r2 is the completion of r1 between a leading json
\* marker and a trailing marker
Wrapped(r1, r2) ==
    /\ Done(r1) /\ Done(r2) /\ TextReply(r1) /\ TextReply(r2)
    /\ req[r2].reply.text \in {WrapTight(req[r1].reply.text), WrapLines(req[r1].reply.text)}

SameOutcome(r1, r2) ==
    /\ req[r1].status = req[r2].status
    /\ req[r1].body = req[r2].body
    /\ req[r1].parse = req[r2].parse

\* C5 as stated: for every payload text, the fenced completion has the
\* outcome of the bare one.
C5_FenceTransparent_AsStated ==
    \A r1, r2 \in Requests : Wrapped(r1, r2) => SameOutcome(r1, r2)

\* a text that, whitespace trimmed, neither begins nor ends with a marker
NoMarkerOfItsOwn(P) == ~startswith(strip(P), Fence) /\ ~endswith(strip(P), Fence)

\* C5 amended: for every payload text that, whitespace trimmed, neither
\* begins nor ends with a fence marker of its own, the fenced completion is
\* parsed to the same result, or the same failure, as the bare one.
C5_FenceTransparent ==
    \A r1, r2 \in Requests :
        Wrapped(r1, r2) /\ NoMarkerOfItsOwn(req[r1].reply.text) => SameOutcome(r1, r2)

C5_Witness ==
    \E r1, r2 \in Requests :
        /\ Wrapped(r1, r2) /\ NoMarkerOfItsOwn(req[r1].reply.text)
        /\ req[r1].status = 200 /\ req[r2].status = 200

\* the parsed value has every required field, each int field a JSON integer
MatchesSchema(v) ==
    /\ RequiredFields \subseteq DOMAIN v
    /\ \A f \in IntFields : v[f].t = "int"

\* C6: a completion that parses but does not match the AnalysisResponse
\* schema ends in Failed with HTTP 500 and a JSON body holding a detail string.
C6_SchemaMismatchIs500Detail ==
    \A r \in Requests :
        Done(r) /\ TextReply(r) /\ req[r].parse = "ok"
          /\ ~MatchesSchema(json_loads(req[r].parserInput).value) =>
            req[r].status = 500 /\ req[r].body.kind = "detail"

\* C7: every health answer has status "ok"; openai_configured is false when
\* the credential is unset and true when it is set and the client was
\* constructed; all health answers of the process agree; health is always
\* possible.
C7_HealthTruthful ==
    /\ ENABLED health
    /\ Cardinality({ h.openai_configured : h \in healthLog }) <= 1
    /\ \A h \in healthLog :
        /\ h.status = "ok"
        /\ (OPENAI_API_KEY = "" => ~h.openai_configured)
        /\ (OPENAI_API_KEY # "" /\ OPENAI_AVAILABLE /\ ~ctorRaised => h.openai_configured)

C7_Witness ==
    /\ \E h \in healthLog : h.openai_configured
    /\ OPENAI_API_KEY # ""
    /\ \E r1, r2 \in Requests : Done(r1) /\ req[r2].pc = "awaiting"

\* the letters a language tag is made of
TagLetters == {"j", "s", "o", "n", "t", "p"}

RECURSIVE DropTag(_)
DropTag(s) == IF s # <<>> /\ Head(s) \in TagLetters THEN DropTag(Tail(s)) ELSE s

\* the text with one leading marker and its tag, whatever the tag, and one
\* trailing marker removed
OneMarkerEachEnd(content) ==
    LET s == strip(content)
        a == IF startswith(s, Fence) THEN DropTag(DropFirst(s, 3)) ELSE s
        b == IF endswith(a, Fence) THEN DropLast(a, 3) ELSE a
    IN  strip(b)

LeadingRemoved(s) ==
    IF startswith(s, FenceJson \o Fence) THEN Len(FenceJson) + Len(Fence)
    ELSE IF startswith(s, FenceJson) THEN Len(FenceJson)
    ELSE IF startswith(s, Fence) THEN Len(Fence)
    ELSE 0

C9_NoRetry ==
    \A r \in Requests :
        /\ req[r].upstreamCalls =
              IF Started(r) /\ req[r].poses > 0 /\ client # "None" THEN 1 ELSE 0
        /\ (UpstreamFailed(r) => Done(r) /\ req[r].status = 500)

C9_Witness ==
    \E r \in Requests :
        Done(r) /\ UpstreamFailed(r) /\ req[r].status = 500 /\ req[r].upstreamCalls = 1

\* two finished requests with the same emptiness of poses and the same
\* upstream reply have the same status, and the same body when delegated
OutcomeOwn ==
    \A r1, r2 \in Requests :
        /\ Done(r1) /\ Done(r2)
        /\ (req[r1].poses = 0 <=> req[r2].poses = 0)
        /\ req[r1].reply = req[r2].reply
        => /\ req[r1].status = req[r2].status
           /\ (Delegated(r1) => req[r1].body = req[r2].body)

\* a step leaves the flag alone, changes the record of at most one request,
\* and never the record of a finished request
StepOwn ==
    /\ client' = client
    /\ \A r1, r2 \in Requests : r1 # r2 => req'[r1] = req[r1] \/ req'[r2] = req[r2]
    /\ \A r \in Requests : Done(r) => req'[r] = req[r]

\* C10: requests are handled independently: the flag is never changed after
\* startup, a step of one request changes no other request, and the terminal
\* outcome of a request is a function of its own poses, the flag and its own
\* upstream reply.
C10_Independent == []OutcomeOwn /\ [][StepOwn]_vars

C10_Witness ==
    \E r1, r2 \in Requests :
        /\ Done(r1) /\ Delegated(r1) /\ req[r1].status = 500
        /\ Done(r2) /\ Delegated(r2) /\ req[r2].status = 200

====
